---- MODULE Spec2Model ----
(***************************************************************************)
(* A model of the wallet core: create_address and the steps it runs        *)
(* (src/core/src/main.rs), the NetworkSpecsKey codec                       *)
(* (src/core/src/definitions.rs), AddressKey::from_parts                   *)
(* (src/core/src/keyring.rs) and the helpers they call                     *)
(* (src/core/src/helpers.rs).                                              *)
(*                                                                         *)
(* Strings are sequences of one-character strings; byte strings are        *)
(* sequences of integers in 0..255.  Option<T> is a sequence of length 0   *)
(* (None) or 1 (Some).                                                     *)
(***************************************************************************)
EXTENDS Integers, Sequences, FiniteSets, TLC

VARIABLES
    payload,          \* create_address: the CreateAddressPayload argument
    network_specs,    \* create_address: Option<&NetworkSpecs>
    pc,               \* position of the call
    full_address,     \* Option: the concatenated working buffer while live
    encryption,       \* Option: the local `encryption` of create_address_with_seed_phrase
    derivations,      \* log of the Pair::from_string calls made
    multisigner,      \* Option: the derived MultiSigner
    cropped_path,     \* the parser's normalized path
    has_pwd,          \* the parser's has-password result
    released,         \* memory images of the heap blocks the call has freed
    result,           \* what the call returned
    key_input,        \* NetworkSpecsKey operations: the argument
    network_specs_key,\* Option: the NetworkSpecsKey built
    decoded,          \* what genesis_hash_encryption returned
    addr_input,       \* AddressKey::from_parts: the arguments
    address_key,      \* what AddressKey::from_parts returned
    print_input,      \* print_multisigner_as_base58_or_eth: the arguments
    printed,          \* what print_multisigner_as_base58_or_eth returned
    from_string_results, \* what Pair::from_string returned, per pair type and secret
    calls             \* the create_address calls that have returned, in order

vars == <<payload, network_specs, pc, full_address, encryption, derivations,
          multisigner, cropped_path, has_pwd, released, result,
          key_input, network_specs_key, decoded, addr_input, address_key,
          print_input, printed, from_string_results, calls>>

create_vars == <<payload, network_specs, full_address, encryption, derivations,
                 multisigner, cropped_path, has_pwd, released, result>>
key_vars == <<key_input, network_specs_key, decoded>>
addr_vars == <<addr_input, address_key>>
print_vars == <<print_input, printed>>
again_vars == <<from_string_results, calls>>

----------------------------------------------------------------------------
(* Bounds of the model *)

MaxPathLen == 6      \* longest derivation path drawn
MaxPathLenLF == 7    \* longest derivation path drawn for the parser on its own
MaxSeedLen == 2      \* longest seed phrase drawn
MaxNameLen == 1      \* longest seed name drawn
NumHashes == 3       \* number of distinct genesis hashes drawn
NumKeys == 2         \* number of distinct public keys a derivation may yield
MaxExtra == 2        \* how far a drawn byte string may exceed a full key
Ss58TextLen == 2     \* longest SS58 text drawn
MaxCalls == 3        \* number of create_address calls in a row

(* Program constants *)

H256Len == 32        \* sp_core::H256
Public32Len == 32    \* ed25519::Public, sr25519::Public
Public33Len == 33    \* ecdsa::Public
H160Len == 20        \* sp_core::H160

----------------------------------------------------------------------------
(* Option and small helpers *)

None == <<>>
Some(v) == <<v>>
IsSome(o) == Len(o) = 1
Unwrap(o) == o[1]

SeqsUpTo(S, n) == UNION {[1..k -> S] : k \in 0..n}

Prefix(s, k) == SubSeq(s, 1, k)
Suffix(s, k) == SubSeq(s, k + 1, Len(s))

Max(a, b) == IF a >= b THEN a ELSE b

----------------------------------------------------------------------------
(* Encryption, MultiSigner *)

Encryption == {"Ed25519", "Sr25519", "Ecdsa", "Ethereum"}

Hash(n) == [i \in 1..H256Len |-> (n * i) % 256]
GenesisHashes == {Hash(n) : n \in 0..(NumHashes - 1)}

NetworkSpecsSet == [encryption : Encryption, genesis_hash : GenesisHashes]

MultiSignerOf(variant, public) == [variant |-> variant, public |-> public]

multisigner_to_public(m) == m.public

----------------------------------------------------------------------------
(* The secret buffers: String::with_capacity, push_str, zeroize, drop *)

Zero == "NUL"        \* a zero byte
Uninit == "UNINIT"   \* a byte of a fresh allocation, never written

with_capacity(n) ==
    [cap |-> n, len |-> 0, mem |-> [i \in 1..n |-> Uninit], remnants |-> {}]

(* push_str: appends in place while the capacity suffices; otherwise the    *)
(* block is reallocated (amortized growth) and the old block is freed with  *)
(* its contents still in it.                                                *)
push_str(buf, s) ==
    LET need == buf.len + Len(s) IN
    IF need <= buf.cap
    THEN [buf EXCEPT
            !.mem = [i \in 1..buf.cap |->
                        IF i > buf.len /\ i <= need THEN s[i - buf.len] ELSE buf.mem[i]],
            !.len = need]
    ELSE LET newcap == Max(2 * buf.cap, need) IN
         [cap |-> newcap,
          len |-> need,
          mem |-> [i \in 1..newcap |->
                      IF i <= buf.len THEN buf.mem[i]
                      ELSE IF i <= need THEN s[i - buf.len]
                      ELSE Uninit],
          remnants |-> IF buf.cap > 0 THEN buf.remnants \cup {buf.mem} ELSE buf.remnants]

as_str(buf) == Prefix(buf.mem, buf.len)

(* Zeroize for String: every byte of the block, spare capacity included,    *)
(* is overwritten with zero and the length is set to 0.                     *)
zeroize(buf) ==
    [buf EXCEPT !.mem = [i \in 1..buf.cap |-> Zero], !.len = 0]

(* Dropping a buffer frees its block, and what is in it stays in memory.    *)
Drop(owner, buf) ==
    {[owner |-> owner, mem |-> m] : m \in buf.remnants \cup {buf.mem}}

(* The owned seed_phrase String argument: its block holds the phrase.       *)
OwnedString(s) == [cap |-> Len(s), len |-> Len(s), mem |-> s, remnants |-> {}]

AllZero(mem) == \A i \in 1..Len(mem) : mem[i] = Zero

----------------------------------------------------------------------------
(* REG_PATH, anchored at both ends: a group `path` of zero or more          *)
(* junctions (one or two slashes, then one or more characters that are not *)
(* a slash), then optionally three slashes and a group `password` of one   *)
(* or more characters, none a line feed.                                   *)

Slash == "/"
LineFeed == "\n"

(* lengths k such that the first k characters of t are one junction *)
JunctionLens(t) ==
    {k \in 2..Len(t) :
        \/ /\ t[1] = Slash
           /\ \A i \in 2..k : t[i] # Slash
        \/ /\ k >= 3
           /\ t[1] = Slash
           /\ t[2] = Slash
           /\ \A i \in 3..k : t[i] # Slash}

RECURSIVE IsJunctions(_)
(* t is zero or more junctions *)
IsJunctions(t) ==
    \/ Len(t) = 0
    \/ \E k \in JunctionLens(t) : IsJunctions(Suffix(t, k))

(* t is three slashes and a password; the dot of the pattern matches any   *)
(* character but a line feed                                                *)
IsPasswordGroup(t) ==
    /\ Len(t) >= 4
    /\ \A i \in 1..3 : t[i] = Slash
    /\ \A i \in 4..Len(t) : t[i] # LineFeed

(* the lengths of the path group over all the ways the anchored pattern     *)
(* matches s                                                                *)
PathGroupLens(s) ==
    {k \in 0..Len(s) :
        /\ IsJunctions(Prefix(s, k))
        /\ \/ k = Len(s)
           \/ IsPasswordGroup(Suffix(s, k))}

SetMax(S) == CHOOSE x \in S : \A y \in S : y <= x

(* REG_PATH.captures(s): None, or the groups of the match the greedy star   *)
(* prefers.                                                                 *)
REG_PATH_captures(s) ==
    LET K == PathGroupLens(s) IN
    IF K = {} THEN None
    ELSE LET k == SetMax(K) IN
         Some([path |-> Some(Prefix(s, k)),
               password |-> IF k < Len(s) THEN Some(Suffix(s, k + 3)) ELSE None])

(* a variant that hands back the raw path when the pattern does not match   *)
parse_path_raw_on_mismatch(path) ==
    LET caps == REG_PATH_captures(path) IN
    IF IsSome(caps)
    THEN IF IsSome(Unwrap(caps).path)
         THEN [cropped_path |-> Unwrap(Unwrap(caps).path),
               has_pwd |-> IsSome(Unwrap(caps).password)]
         ELSE [cropped_path |-> <<>>, has_pwd |-> IsSome(Unwrap(caps).password)]
    ELSE [cropped_path |-> path, has_pwd |-> FALSE]

(* a variant that tells whether a password is there and leaves it in the    *)
(* path                                                                     *)
parse_path_keeps_password(path) ==
    LET caps == REG_PATH_captures(path) IN
    IF IsSome(caps)
    THEN [cropped_path |-> path, has_pwd |-> IsSome(Unwrap(caps).password)]
    ELSE [cropped_path |-> <<>>, has_pwd |-> FALSE]

(* main.rs 147-153 *)
parse_path(path) ==
    LET caps == REG_PATH_captures(path) IN
    IF IsSome(caps)
    THEN IF IsSome(Unwrap(caps).path)
         THEN [cropped_path |-> Unwrap(Unwrap(caps).path),
               has_pwd |-> IsSome(Unwrap(caps).password)]
         ELSE [cropped_path |-> <<>>, has_pwd |-> IsSome(Unwrap(caps).password)]
    ELSE [cropped_path |-> <<>>, has_pwd |-> FALSE]

----------------------------------------------------------------------------
(* NetworkSpecsKey: the SCALE encoding of NetworkSpecsKeyContent *)

(* a variant in which Ethereum shares the index of Ecdsa *)
VariantIndex_shared(e) ==
    CASE e = "Ed25519" -> 0
      [] e = "Sr25519" -> 1
      [] e \in {"Ecdsa", "Ethereum"} -> 2

(* the variant index the derived Encode gives each variant: its position in *)
(* the declaration                                                          *)
VariantIndex(e) ==
    CASE e = "Ed25519" -> 0
      [] e = "Sr25519" -> 1
      [] e = "Ecdsa" -> 2
      [] e = "Ethereum" -> 3

NetworkSpecsKeyContent_encode(content) ==
    <<VariantIndex(content.variant)>> \o content.hash

NetworkSpecsKey_from_parts(genesis_hash, enc) ==
    LET network_key_content ==
            CASE enc = "Ed25519" -> [variant |-> "Ed25519", hash |-> genesis_hash]
              [] enc = "Sr25519" -> [variant |-> "Sr25519", hash |-> genesis_hash]
              [] enc = "Ecdsa" -> [variant |-> "Ecdsa", hash |-> genesis_hash]
              [] enc = "Ethereum" -> [variant |-> "Ethereum", hash |-> genesis_hash]
    IN NetworkSpecsKeyContent_encode(network_key_content)

----------------------------------------------------------------------------
(* AddressKey, IdentityRecord *)

AddressKey_new(m, genesis_hash) == [multisigner |-> m, genesis_hash |-> genesis_hash]

(* a variant that stores the seed name and the path in each other's field *)
IdentityRecord_get_swapped(name, enc, public_key, path, network_genesis_hash) ==
    [seed_name |-> path,
     encryption |-> enc,
     public_key |-> public_key,
     path |-> name,
     network_genesis_hash |-> network_genesis_hash]

IdentityRecord_get(name, enc, public_key, path, network_genesis_hash) ==
    [seed_name |-> name,
     encryption |-> enc,
     public_key |-> public_key,
     path |-> path,
     network_genesis_hash |-> network_genesis_hash]

----------------------------------------------------------------------------
(* Results of create_address *)

Pending == [tag |-> "Pending", error |-> "", address_details |-> None, identity_record |-> None]
Panicked == [tag |-> "Panic", error |-> "", address_details |-> None, identity_record |-> None]
Err(e) == [tag |-> "Err", error |-> e, address_details |-> None, identity_record |-> None]
Ok(ad, ir) == [tag |-> "Ok", error |-> "", address_details |-> ad, identity_record |-> ir]

----------------------------------------------------------------------------
(* Pair::from_string of sp_core: the library either rejects the secret      *)
(* string or yields a pair, whose public key has the length of its type.    *)
(* Which of the two, and which key, is the library's: every outcome is      *)
(* allowed.                                                                 *)

PublicLen(variant) == IF variant = "Ecdsa" THEN Public33Len ELSE Public32Len

KeyBytes(n, len) == [i \in 1..len |-> (n + i) % 256]

FromStringOutcomes(variant) ==
    {[ok |-> FALSE, public |-> <<>>]}
    \cup {[ok |-> TRUE, public |-> KeyBytes(n, PublicLen(variant))] : n \in 1..NumKeys}

(* a variant that yields a pair anew at every call *)
from_string_anew(results, variant, secret) ==
    FromStringOutcomes(variant)

(* Pair::from_string reads its arguments only: what it returned for a pair  *)
(* type and a secret string it returns for them again                       *)
from_string(results, variant, secret) ==
    LET known == {r \in results : r.pair = variant /\ r.secret = secret} IN
    IF known = {} THEN FromStringOutcomes(variant) ELSE {r.out : r \in known}

(* main.rs 53-68: the pair type each scheme derives with *)
pair_variant(enc) ==
    CASE enc = "Ed25519" -> "Ed25519"
      [] enc = "Sr25519" -> "Sr25519"
      [] enc \in {"Ecdsa", "Ethereum"} -> "Ecdsa"

(* a variant that returns early on a derivation error, before the zeroize  *)
zeroize_only_on_success(buf, ok) == IF ok THEN zeroize(buf) ELSE buf

(* main.rs 69: the buffer as full_address_to_multisigner leaves it *)
zeroize_full_address(buf, ok) == zeroize(buf)

----------------------------------------------------------------------------
(* create_address_with_seed_phrase, step by step *)

(* a variant that checks what the comment of main.rs 131 names *)
seed_name_checked_first(phrase, name) == Len(name) = 0

(* main.rs 132 *)
seed_phrase_check_fails(phrase, name) == Len(phrase) = 0

(* main.rs 136 *)
full_address_size(phrase, path) == Len(phrase) + Len(path)

(* main.rs 141-143 *)
derivation_encryption(ns) ==
    IF IsSome(ns) THEN Unwrap(ns).encryption ELSE "Sr25519"

(* a variant whose default differs from the one used for the derivation *)
details_encryption_other_default(ns) ==
    IF IsSome(ns) THEN Unwrap(ns).encryption ELSE "Ed25519"

(* main.rs 116-118 *)
details_encryption(ns) ==
    IF IsSome(ns) THEN Unwrap(ns).encryption ELSE "Sr25519"

(* main.rs 81 *)
seed_name_check_fails(name) == Len(name) = 0

(* a variant that leaves has_pwd at false whatever the parser found *)
do_create_address_without_pwd(path, ns, name, m, pwd) ==
    IF seed_name_check_fails(name)
    THEN Err("EmptySeedName")
    ELSE LET network_id ==
                 IF IsSome(ns)
                 THEN Some(NetworkSpecsKey_from_parts(Unwrap(ns).genesis_hash,
                                                      Unwrap(ns).encryption))
                 ELSE None
             identity_record ==
                 IF IsSome(ns)
                 THEN Some(IdentityRecord_get(name, Unwrap(ns).encryption,
                                              multisigner_to_public(m), path,
                                              Unwrap(ns).genesis_hash))
                 ELSE None
             address_details ==
                 Some([seed_name |-> name,
                       path |-> path,
                       has_pwd |-> FALSE,
                       network_id |-> network_id,
                       encryption |-> details_encryption(ns),
                       secret_exposed |-> FALSE])
         IN Ok(address_details, identity_record)

(* main.rs 73-123 *)
do_create_address_with_seed_phrase(path, ns, name, m, pwd) ==
    IF seed_name_check_fails(name)
    THEN Err("EmptySeedName")
    ELSE LET network_id ==
                 IF IsSome(ns)
                 THEN Some(NetworkSpecsKey_from_parts(Unwrap(ns).genesis_hash,
                                                      Unwrap(ns).encryption))
                 ELSE None
             identity_record ==
                 IF IsSome(ns)
                 THEN Some(IdentityRecord_get(name, Unwrap(ns).encryption,
                                              multisigner_to_public(m), path,
                                              Unwrap(ns).genesis_hash))
                 ELSE None
             address_details ==
                 Some([seed_name |-> name,
                       path |-> path,
                       has_pwd |-> pwd,
                       network_id |-> network_id,
                       encryption |-> details_encryption(ns),
                       secret_exposed |-> FALSE])
         IN Ok(address_details, identity_record)

(* the owned seed_phrase String goes out of scope: its block is freed as is *)
drop_seed_phrase(phrase) == Drop("seed_phrase", OwnedString(phrase))

(* main.rs 165-179 *)
create_address ==
    /\ pc = "create_address"
    /\ IF payload.kind = "SeedPhrase"
       THEN /\ pc' = "check_seed"
            /\ result' = result
       ELSE /\ pc' = "panicked"
            /\ result' = Panicked
    /\ UNCHANGED <<payload, network_specs, full_address, encryption, derivations,
                   multisigner, cropped_path, has_pwd, released>>
    /\ UNCHANGED <<key_vars, addr_vars, print_vars, again_vars>>

(* main.rs 131-134 *)
check_seed ==
    /\ pc = "check_seed"
    /\ IF seed_phrase_check_fails(payload.seed_phrase, payload.seed_name)
       THEN /\ result' = Err("EmptySeed")
            /\ released' = released \cup drop_seed_phrase(payload.seed_phrase)
            /\ pc' = "done"
       ELSE /\ pc' = "build_full_address"
            /\ UNCHANGED <<result, released>>
    /\ UNCHANGED <<payload, network_specs, full_address, encryption, derivations,
                   multisigner, cropped_path, has_pwd>>
    /\ UNCHANGED <<key_vars, addr_vars, print_vars, again_vars>>

(* main.rs 135-143 *)
build_full_address ==
    /\ pc = "build_full_address"
    /\ LET size == full_address_size(payload.seed_phrase, payload.derivation_path)
           b0 == with_capacity(size)
           b1 == push_str(b0, payload.seed_phrase)
           b2 == push_str(b1, payload.derivation_path)
       IN full_address' = Some(b2)
    /\ encryption' = Some(derivation_encryption(network_specs))
    /\ pc' = "full_address_to_multisigner"
    /\ UNCHANGED <<payload, network_specs, derivations, multisigner, cropped_path,
                   has_pwd, released, result>>
    /\ UNCHANGED <<key_vars, addr_vars, print_vars, again_vars>>

(* main.rs 49-71 and the ? of 145: the buffer moves into the function, which *)
(* derives, zeroizes the buffer and drops it on return                      *)
full_address_to_multisigner ==
    /\ pc = "full_address_to_multisigner"
    /\ LET buf == Unwrap(full_address)
           enc == Unwrap(encryption)
           variant == pair_variant(enc)
       IN \E out \in from_string(from_string_results, variant, as_str(buf)) :
            /\ from_string_results' =
                   from_string_results
                   \cup {[pair |-> variant, secret |-> as_str(buf), out |-> out]}
            /\ derivations' = Append(derivations,
                                     [encryption |-> enc,
                                      pair |-> variant,
                                      secret |-> as_str(buf)])
            /\ full_address' = None
            /\ IF out.ok
               THEN /\ multisigner' = Some(MultiSignerOf(variant, out.public))
                    /\ released' = released
                                   \cup Drop("full_address", zeroize_full_address(buf, TRUE))
                    /\ pc' = "parse_path"
                    /\ result' = result
               ELSE /\ multisigner' = None
                    /\ released' = released
                                   \cup Drop("full_address", zeroize_full_address(buf, FALSE))
                                   \cup drop_seed_phrase(payload.seed_phrase)
                    /\ pc' = "done"
                    /\ result' = Err("SecretStringError")
    /\ UNCHANGED <<payload, network_specs, encryption, cropped_path, has_pwd>>
    /\ UNCHANGED <<key_vars, addr_vars, print_vars, calls>>

(* main.rs 147-153 *)
parse_derivation_path ==
    /\ pc = "parse_path"
    /\ LET parsed == parse_path(payload.derivation_path)
       IN /\ cropped_path' = parsed.cropped_path
          /\ has_pwd' = parsed.has_pwd
    /\ pc' = "do_create"
    /\ UNCHANGED <<payload, network_specs, full_address, encryption, derivations,
                   multisigner, released, result>>
    /\ UNCHANGED <<key_vars, addr_vars, print_vars, again_vars>>

(* main.rs 155-162 *)
do_create ==
    /\ pc = "do_create"
    /\ result' = do_create_address_with_seed_phrase(cropped_path, network_specs,
                                                    payload.seed_name,
                                                    Unwrap(multisigner), has_pwd)
    /\ released' = released \cup drop_seed_phrase(payload.seed_phrase)
    /\ pc' = "done"
    /\ UNCHANGED <<payload, network_specs, full_address, encryption, derivations,
                   multisigner, cropped_path, has_pwd>>
    /\ UNCHANGED <<key_vars, addr_vars, print_vars, again_vars>>

----------------------------------------------------------------------------
(* The calls drawn *)

PathChars == {Slash, "a"}
SeedChars == {"s"}
NameChars == {"n"}

Payloads ==
    {[kind |-> "SeedPhrase", derivation_path |-> p, seed_phrase |-> s, seed_name |-> n] :
        p \in SeqsUpTo(PathChars, MaxPathLen),
        s \in SeqsUpTo(SeedChars, MaxSeedLen),
        n \in SeqsUpTo(NameChars, MaxNameLen)}
    \cup {[kind |-> k, derivation_path |-> <<>>, seed_phrase |-> <<>>, seed_name |-> <<>>] :
        k \in {"SocialProvider", "EmailAndPassword"}}

IdleKey ==
    /\ key_input = None
    /\ network_specs_key = None
    /\ decoded = None

IdleAddr ==
    /\ addr_input = None
    /\ address_key = None

IdlePrint ==
    /\ print_input = None
    /\ printed = None

NoCallsYet ==
    /\ from_string_results = {}
    /\ calls = <<>>

IdleCreate ==
    /\ payload = [kind |-> "None", derivation_path |-> <<>>, seed_phrase |-> <<>>,
                  seed_name |-> <<>>]
    /\ network_specs = None
    /\ full_address = None
    /\ encryption = None
    /\ derivations = <<>>
    /\ multisigner = None
    /\ cropped_path = <<>>
    /\ has_pwd = FALSE
    /\ released = {}
    /\ result = Pending

Init ==
    /\ payload \in Payloads
    /\ network_specs \in {None} \cup {Some(ns) : ns \in NetworkSpecsSet}
    /\ pc = "create_address"
    /\ full_address = None
    /\ encryption = None
    /\ derivations = <<>>
    /\ multisigner = None
    /\ cropped_path = <<>>
    /\ has_pwd = FALSE
    /\ released = {}
    /\ result = Pending
    /\ IdleKey
    /\ IdleAddr
    /\ IdlePrint
    /\ NoCallsYet

Next ==
    \/ create_address
    \/ check_seed
    \/ build_full_address
    \/ full_address_to_multisigner
    \/ parse_derivation_path
    \/ do_create

Spec == Init /\ [][Next]_vars

----------------------------------------------------------------------------
(* The path parser on its own: the call runs as above on paths that may     *)
(* also hold a line feed                                                    *)

PathCharsLF == {Slash, "a", LineFeed}

InitPath ==
    /\ payload \in
          {[kind |-> "SeedPhrase", derivation_path |-> p, seed_phrase |-> <<"s">>,
            seed_name |-> <<"n">>] : p \in SeqsUpTo(PathCharsLF, MaxPathLenLF)}
    /\ network_specs = None
    /\ pc = "create_address"
    /\ full_address = None
    /\ encryption = None
    /\ derivations = <<>>
    /\ multisigner = None
    /\ cropped_path = <<>>
    /\ has_pwd = FALSE
    /\ released = {}
    /\ result = Pending
    /\ IdleKey
    /\ IdleAddr
    /\ IdlePrint
    /\ NoCallsYet

SpecPath == InitPath /\ [][Next]_vars

----------------------------------------------------------------------------
(* helpers.rs: unhex *)

HexDigitsLower == <<"0", "1", "2", "3", "4", "5", "6", "7", "8", "9",
                    "a", "b", "c", "d", "e", "f">>
HexDigitsUpper == <<"0", "1", "2", "3", "4", "5", "6", "7", "8", "9",
                    "A", "B", "C", "D", "E", "F">>

IsHexDigit(c) == \E v \in 1..16 : HexDigitsLower[v] = c \/ HexDigitsUpper[v] = c

HexVal(c) == (CHOOSE v \in 1..16 : HexDigitsLower[v] = c \/ HexDigitsUpper[v] = c) - 1

(* hex::decode: an odd number of characters or a character that is no hex   *)
(* digit is an error; otherwise each pair of digits is one byte             *)
hex_decode(h) ==
    IF Len(h) % 2 # 0 \/ \E i \in 1..Len(h) : ~IsHexDigit(h[i])
    THEN [ok |-> FALSE, bytes |-> <<>>]
    ELSE [ok |-> TRUE,
          bytes |-> [i \in 1..(Len(h) \div 2) |->
                        16 * HexVal(h[2 * i - 1]) + HexVal(h[2 * i])]]

strip_prefix_0x(h) ==
    IF Len(h) >= 2 /\ h[1] = "0" /\ h[2] = "x" THEN Some(Suffix(h, 2)) ELSE None

unhex(hex_entry) ==
    LET stripped == strip_prefix_0x(hex_entry)
        entry == IF IsSome(stripped) THEN Unwrap(stripped) ELSE hex_entry
    IN hex_decode(entry)

----------------------------------------------------------------------------
(* NetworkSpecsKey::from_hex, genesis_hash_encryption *)

NetworkSpecsKey_from_hex(hex_line) ==
    LET r == unhex(hex_line) IN
    IF r.ok THEN Some(r.bytes) ELSE None

DecodeErr == [ok |-> FALSE, genesis_hash |-> <<>>, encryption |-> ""]
DecodeOk(h, e) == [ok |-> TRUE, genesis_hash |-> h, encryption |-> e]

(* Decode for NetworkSpecsKeyContent, as derived: one byte selects the      *)
(* variant, the next 32 are the H256; Decode::decode leaves what follows    *)
(* them in the input unread.                                                *)
NetworkSpecsKeyContent_decode(bytes) ==
    IF Len(bytes) < 1 THEN None
    ELSE LET index == bytes[1]
             rest == Suffix(bytes, 1)
         IN IF index \notin 0..3 THEN None
            ELSE IF Len(rest) < H256Len THEN None
            ELSE Some([variant |-> CASE index = 0 -> "Ed25519"
                                     [] index = 1 -> "Sr25519"
                                     [] index = 2 -> "Ecdsa"
                                     [] index = 3 -> "Ethereum",
                       hash |-> Prefix(rest, H256Len)])

genesis_hash_encryption(key) ==
    LET content == NetworkSpecsKeyContent_decode(key) IN
    IF ~IsSome(content) THEN DecodeErr
    ELSE LET c == Unwrap(content) IN
         CASE c.variant = "Ed25519" -> DecodeOk(c.hash, "Ed25519")
           [] c.variant = "Sr25519" -> DecodeOk(c.hash, "Sr25519")
           [] c.variant = "Ecdsa" -> DecodeOk(c.hash, "Ecdsa")
           [] c.variant = "Ethereum" -> DecodeOk(c.hash, "Ethereum")

(* The byte strings and hexadecimal lines drawn *)

TagBytes == {0, 1, 2, 3, 4, 255}
FillBytes == {0, 171}

RawBytes(n, tag, fill) == [i \in 1..n |-> IF i = 1 THEN tag ELSE (fill + i) % 256]

ToHex(bytes, digits) ==
    [i \in 1..(2 * Len(bytes)) |->
        LET b == bytes[(i + 1) \div 2] IN
        digits[(IF i % 2 = 1 THEN b \div 16 ELSE b % 16) + 1]]

HexLine(bytes, digits, prefixed, defect) ==
    LET h == ToHex(bytes, digits)
        d == CASE defect = "none" -> h
               [] defect = "odd" -> h \o <<"0">>
               [] defect = "nonhex" -> h \o <<"g", "0">>
    IN IF prefixed THEN <<"0", "x">> \o d ELSE d

KeyInputs ==
    {[kind |-> "parts", genesis_hash |-> h, encryption |-> e, hex_line |-> <<>>] :
        h \in GenesisHashes, e \in Encryption}
    \cup {[kind |-> "hex", genesis_hash |-> <<>>, encryption |-> "",
           hex_line |-> HexLine(RawBytes(n, tag, fill), digits, prefixed, defect)] :
        n \in 0..(1 + H256Len + MaxExtra), tag \in TagBytes, fill \in FillBytes,
        digits \in {HexDigitsLower, HexDigitsUpper}, prefixed \in BOOLEAN,
        defect \in {"none", "odd", "nonhex"}}

InitKey ==
    /\ key_input \in {Some(k) : k \in KeyInputs}
    /\ network_specs_key = None
    /\ decoded = None
    /\ pc = "key_start"
    /\ IdleCreate
    /\ IdleAddr
    /\ IdlePrint
    /\ NoCallsYet

from_parts ==
    /\ pc = "key_start"
    /\ Unwrap(key_input).kind = "parts"
    /\ network_specs_key' = Some(NetworkSpecsKey_from_parts(Unwrap(key_input).genesis_hash,
                                                            Unwrap(key_input).encryption))
    /\ pc' = "key_built"
    /\ UNCHANGED <<key_input, decoded, create_vars, addr_vars, print_vars, again_vars>>

from_hex ==
    /\ pc = "key_start"
    /\ Unwrap(key_input).kind = "hex"
    /\ LET k == NetworkSpecsKey_from_hex(Unwrap(key_input).hex_line) IN
       /\ network_specs_key' = k
       /\ pc' = IF IsSome(k) THEN "key_built" ELSE "key_hex_error"
    /\ UNCHANGED <<key_input, decoded, create_vars, addr_vars, print_vars, again_vars>>

decode_key ==
    /\ pc = "key_built"
    /\ decoded' = Some(genesis_hash_encryption(Unwrap(network_specs_key)))
    /\ pc' = "key_done"
    /\ UNCHANGED <<key_input, network_specs_key, create_vars, addr_vars, print_vars, again_vars>>

NextKey ==
    \/ from_parts
    \/ from_hex
    \/ decode_key

SpecKey == InitKey /\ [][NextKey]_vars

----------------------------------------------------------------------------
(* helpers.rs: get_multisigner; keyring.rs: AddressKey::from_parts *)

MultiSignerErr == [ok |-> FALSE, error |-> "WrongPublicKeyLength",
                   multisigner |-> MultiSignerOf("", <<>>)]
MultiSignerOk(m) == [ok |-> TRUE, error |-> "", multisigner |-> m]

(* a variant that reads the Ethereum key as a 32-byte one *)
get_multisigner_eth32(public, enc) ==
    CASE enc = "Ed25519" ->
            IF Len(public) = Public32Len
            THEN MultiSignerOk(MultiSignerOf("Ed25519", public)) ELSE MultiSignerErr
      [] enc = "Sr25519" ->
            IF Len(public) = Public32Len
            THEN MultiSignerOk(MultiSignerOf("Sr25519", public)) ELSE MultiSignerErr
      [] enc = "Ecdsa" ->
            IF Len(public) = Public33Len
            THEN MultiSignerOk(MultiSignerOf("Ecdsa", public)) ELSE MultiSignerErr
      [] enc = "Ethereum" ->
            IF Len(public) = Public32Len
            THEN MultiSignerOk(MultiSignerOf("Ecdsa", public)) ELSE MultiSignerErr

(* try_into a fixed-size array succeeds exactly when the lengths agree *)
get_multisigner(public, enc) ==
    CASE enc = "Ed25519" ->
            IF Len(public) = Public32Len
            THEN MultiSignerOk(MultiSignerOf("Ed25519", public)) ELSE MultiSignerErr
      [] enc = "Sr25519" ->
            IF Len(public) = Public32Len
            THEN MultiSignerOk(MultiSignerOf("Sr25519", public)) ELSE MultiSignerErr
      [] enc \in {"Ecdsa", "Ethereum"} ->
            IF Len(public) = Public33Len
            THEN MultiSignerOk(MultiSignerOf("Ecdsa", public)) ELSE MultiSignerErr

AddressKey_from_parts(public, enc, genesis_hash) ==
    LET m == get_multisigner(public, enc) IN
    IF ~m.ok
    THEN [ok |-> FALSE, error |-> m.error, key |-> AddressKey_new(m.multisigner, None)]
    ELSE [ok |-> TRUE, error |-> "", key |-> AddressKey_new(m.multisigner, genesis_hash)]

(* keyring.rs: key, public_key_encryption; helpers.rs:                      *)
(* multisigner_to_encryption                                                *)

(* the variant index of sp_runtime's MultiSigner in its SCALE encoding *)
MultiSignerIndex(variant) ==
    CASE variant = "Ed25519" -> 0
      [] variant = "Sr25519" -> 1
      [] variant = "Ecdsa" -> 2

(* the derived Encode of AddressKey: the MultiSigner, then the Option<H256> *)
(* as a byte 0, or a byte 1 and the hash                                    *)
AddressKey_key(key) ==
    <<MultiSignerIndex(key.multisigner.variant)>> \o key.multisigner.public
        \o (IF IsSome(key.genesis_hash) THEN <<1>> \o Unwrap(key.genesis_hash) ELSE <<0>>)

(* a variant that reads every Ecdsa key as an Ethereum one *)
public_key_encryption_ecdsa_as_ethereum(key) ==
    CASE key.multisigner.variant = "Ed25519" ->
            [public |-> key.multisigner.public, encryption |-> "Ed25519"]
      [] key.multisigner.variant = "Sr25519" ->
            [public |-> key.multisigner.public, encryption |-> "Sr25519"]
      [] key.multisigner.variant = "Ecdsa" ->
            [public |-> key.multisigner.public, encryption |-> "Ethereum"]

public_key_encryption(key) ==
    CASE key.multisigner.variant = "Ed25519" ->
            [public |-> key.multisigner.public, encryption |-> "Ed25519"]
      [] key.multisigner.variant = "Sr25519" ->
            [public |-> key.multisigner.public, encryption |-> "Sr25519"]
      [] key.multisigner.variant = "Ecdsa" ->
            [public |-> key.multisigner.public, encryption |-> "Ecdsa"]

multisigner_to_encryption(m) ==
    CASE m.variant = "Ed25519" -> "Ed25519"
      [] m.variant = "Sr25519" -> "Sr25519"
      [] m.variant = "Ecdsa" -> "Ecdsa"

AddrInputs ==
    [public : {RawBytes(n, 2, fill) : n \in 0..(Public33Len + MaxExtra), fill \in FillBytes},
     encryption : Encryption,
     genesis_hash : {None} \cup {Some(h) : h \in GenesisHashes}]

InitAddr ==
    /\ addr_input \in {Some(a) : a \in AddrInputs}
    /\ address_key = None
    /\ pc = "addr_start"
    /\ IdleCreate
    /\ IdleKey
    /\ IdlePrint
    /\ NoCallsYet

address_key_from_parts ==
    /\ pc = "addr_start"
    /\ LET a == Unwrap(addr_input) IN
       address_key' = Some(AddressKey_from_parts(a.public, a.encryption, a.genesis_hash))
    /\ pc' = "addr_done"
    /\ UNCHANGED <<addr_input, create_vars, key_vars, print_vars, again_vars>>

NextAddr == address_key_from_parts

SpecAddr == InitAddr /\ [][NextAddr]_vars

----------------------------------------------------------------------------
(* helpers.rs: print_multisigner_as_base58_or_eth                           *)
(*                                                                          *)
(* The SS58 text of a key (a blake2 checksum in base58) and the Ethereum    *)
(* account of a key (keccak of the decompressed point) are computed by      *)
(* libraries; the model keeps what the code decides, which renderer with    *)
(* which version, and lets the text be any string of the renderer's         *)
(* alphabet.                                                                *)

Base58Alphabet ==
    {"1", "2", "3", "4", "5", "6", "7", "8", "9",
     "A", "B", "C", "D", "E", "F", "G", "H", "J", "K", "L", "M", "N", "P", "Q",
     "R", "S", "T", "U", "V", "W", "X", "Y", "Z",
     "a", "b", "c", "d", "e", "f", "g", "h", "i", "j", "k", "m", "n", "o", "p",
     "q", "r", "s", "t", "u", "v", "w", "x", "y", "z"}

Ss58Chars == {"5", "x"}
Ss58Texts == SeqsUpTo(Ss58Chars, Ss58TextLen) \ {<<>>}

Ss58AddressFormat(name, prefix) == [name |-> name, prefix |-> prefix]
NoVersion == Ss58AddressFormat("", None)

PrintedPanic == [tag |-> "Panic", renderer |-> "", version |-> NoVersion, text |-> <<>>]
PrintedOk(renderer, version, text) ==
    [tag |-> "Ok", renderer |-> renderer, version |-> version, text |-> text]

to_ss58check_with_version(pubkey, version) ==
    {PrintedOk("ss58", version, t) : t \in Ss58Texts}

to_ss58check(pubkey) ==
    to_ss58check_with_version(pubkey, Ss58AddressFormat("default", None))

(* libsecp256k1 parse_compressed: a first byte other than 2 or 3 is         *)
(* rejected; with 2 or 3 the rest is a point of the curve or is not         *)
parse_compressed(public) ==
    IF public[1] \in {2, 3} THEN {TRUE, FALSE} ELSE {FALSE}

ecdsa_public_to_eth_address(public) ==
    {[ok |-> FALSE, account |-> <<>>] : b \in parse_compressed(public) \ {TRUE}}
    \cup {[ok |-> TRUE, account |-> KeyBytes(n, H160Len)] :
              n \in {k \in 1..NumKeys : TRUE \in parse_compressed(public)}}

(* expect panics on Err; the account is printed as 0x and 40 hex digits *)
print_ethereum_address(public) ==
    {IF r.ok
     THEN PrintedOk("eth", NoVersion, <<"0", "x">> \o ToHex(r.account, HexDigitsLower))
     ELSE PrintedPanic : r \in ecdsa_public_to_eth_address(public)}

(* a variant whose Ecdsa arm does not look at the scheme *)
print_multisigner_ecdsa_always_ss58(multi_signer, optional_prefix, enc) ==
    IF IsSome(optional_prefix)
    THEN LET version_for_base58 == Ss58AddressFormat("custom", optional_prefix) IN
         CASE multi_signer.variant = "Ed25519" ->
                 to_ss58check_with_version(multi_signer.public, version_for_base58)
           [] multi_signer.variant = "Sr25519" ->
                 to_ss58check_with_version(multi_signer.public, version_for_base58)
           [] multi_signer.variant = "Ecdsa" ->
                 to_ss58check_with_version(multi_signer.public, version_for_base58)
    ELSE CASE multi_signer.variant = "Ed25519" ->
                 to_ss58check_with_version(multi_signer.public,
                                           Ss58AddressFormat("BareEd25519", None))
           [] multi_signer.variant = "Sr25519" ->
                 to_ss58check_with_version(multi_signer.public,
                                           Ss58AddressFormat("BareSr25519", None))
           [] multi_signer.variant = "Ecdsa" ->
                 to_ss58check(multi_signer.public)

(* the set of returns the call can make *)
print_multisigner_as_base58_or_eth(multi_signer, optional_prefix, enc) ==
    IF IsSome(optional_prefix)
    THEN LET version_for_base58 == Ss58AddressFormat("custom", optional_prefix) IN
         CASE multi_signer.variant = "Ed25519" ->
                 to_ss58check_with_version(multi_signer.public, version_for_base58)
           [] multi_signer.variant = "Sr25519" ->
                 to_ss58check_with_version(multi_signer.public, version_for_base58)
           [] multi_signer.variant = "Ecdsa" ->
                 IF enc = "Ethereum"
                 THEN print_ethereum_address(multi_signer.public)
                 ELSE to_ss58check_with_version(multi_signer.public, version_for_base58)
    ELSE CASE multi_signer.variant = "Ed25519" ->
                 to_ss58check_with_version(multi_signer.public,
                                           Ss58AddressFormat("BareEd25519", None))
           [] multi_signer.variant = "Sr25519" ->
                 to_ss58check_with_version(multi_signer.public,
                                           Ss58AddressFormat("BareSr25519", None))
           [] multi_signer.variant = "Ecdsa" ->
                 IF enc = "Ethereum"
                 THEN print_ethereum_address(multi_signer.public)
                 ELSE to_ss58check(multi_signer.public)

Base58Prefixes == {0, 42}

PrintSigners ==
    {MultiSignerOf(v, RawBytes(Public32Len, 2, fill)) :
         v \in {"Ed25519", "Sr25519"}, fill \in FillBytes}
    \cup {MultiSignerOf("Ecdsa", RawBytes(Public33Len, tag, fill)) :
              tag \in {2, 3, 4}, fill \in FillBytes}

PrintInputs ==
    [multi_signer : PrintSigners,
     optional_prefix : {None} \cup {Some(p) : p \in Base58Prefixes},
     encryption : Encryption]

InitPrint ==
    /\ print_input \in {Some(a) : a \in PrintInputs}
    /\ printed = None
    /\ pc = "print_start"
    /\ IdleCreate
    /\ IdleKey
    /\ IdleAddr
    /\ NoCallsYet

print_multisigner ==
    /\ pc = "print_start"
    /\ LET a == Unwrap(print_input) IN
       \E r \in print_multisigner_as_base58_or_eth(a.multi_signer, a.optional_prefix,
                                                   a.encryption) :
           printed' = Some(r)
    /\ pc' = "print_done"
    /\ UNCHANGED <<print_input, create_vars, key_vars, addr_vars, again_vars>>

NextPrint == print_multisigner

SpecPrint == InitPrint /\ [][NextPrint]_vars

----------------------------------------------------------------------------
(* create_address called again and again: every call starts with fresh      *)
(* locals; the code keeps nothing from one call to the next                 *)

AgainPayloads ==
    {[kind |-> "SeedPhrase", derivation_path |-> p, seed_phrase |-> <<"s">>,
      seed_name |-> <<"n">>] : p \in {<<>>, <<Slash, "a">>}}

AgainNetworkSpecs ==
    {None} \cup {Some([encryption |-> e, genesis_hash |-> Hash(0)]) :
                     e \in {"Ecdsa", "Ethereum"}}

InitAgain ==
    /\ payload \in AgainPayloads
    /\ network_specs \in AgainNetworkSpecs
    /\ pc = "create_address"
    /\ full_address = None
    /\ encryption = None
    /\ derivations = <<>>
    /\ multisigner = None
    /\ cropped_path = <<>>
    /\ has_pwd = FALSE
    /\ released = {}
    /\ result = Pending
    /\ IdleKey
    /\ IdleAddr
    /\ IdlePrint
    /\ NoCallsYet

Returned == pc \in {"done", "panicked"}

ThisCall ==
    [payload |-> payload, network_specs |-> network_specs, encryption |-> encryption,
     multisigner |-> multisigner, result |-> result]

call_again ==
    /\ Returned
    /\ Len(calls) < MaxCalls - 1
    /\ calls' = Append(calls, ThisCall)
    /\ payload' \in AgainPayloads
    /\ network_specs' \in AgainNetworkSpecs
    /\ pc' = "create_address"
    /\ full_address' = None
    /\ encryption' = None
    /\ derivations' = <<>>
    /\ multisigner' = None
    /\ cropped_path' = <<>>
    /\ has_pwd' = FALSE
    /\ released' = {}
    /\ result' = Pending
    /\ UNCHANGED <<from_string_results, key_vars, addr_vars, print_vars>>

NextAgain ==
    \/ create_address
    \/ check_seed
    \/ build_full_address
    \/ full_address_to_multisigner
    \/ parse_derivation_path
    \/ do_create
    \/ call_again

SpecAgain == InitAgain /\ [][NextAgain]_vars

----------------------------------------------------------------------------
(* Properties of create_address, checked under Spec *)

IsSeedPhraseCall == payload.kind = "SeedPhrase"

ReleasedOf(owner) == {r \in released : r.owner = owner}

(* C1: create_address with a SeedPhrase payload whose seed_name is empty    *)
(* and whose seed_phrase is not returns the error EmptySeedName, whatever   *)
(* the path and the network specs, and nothing else.                        *)
C1_EmptySeedNameWhenever ==
    (/\ pc = "done"
     /\ IsSeedPhraseCall
     /\ Len(payload.seed_name) = 0
     /\ Len(payload.seed_phrase) > 0)
    => result = Err("EmptySeedName")

(* C2: with an empty seed_phrase the call returns EmptySeed, whatever the   *)
(* seed name, path and network specs, and it does so before any derivation  *)
(* work: the working buffer is never allocated and Pair::from_string is     *)
(* never called.                                                            *)
C2_EmptySeedBeforeDerivation ==
    (IsSeedPhraseCall /\ Len(payload.seed_phrase) = 0)
    => /\ full_address = None
       /\ ReleasedOf("full_address") = {}
       /\ encryption = None
       /\ derivations = <<>>
       /\ multisigner = None
       /\ pc \in {"create_address", "check_seed", "done"}
       /\ pc = "done" => result = Err("EmptySeed")

C2_Witness ==
    /\ pc = "done"
    /\ IsSeedPhraseCall
    /\ Len(payload.seed_phrase) = 0
    /\ Len(payload.seed_name) = 0
    /\ Len(payload.derivation_path) > 0
    /\ IsSome(network_specs)
    /\ result = Err("EmptySeed")

(* C3: the working buffer is created with capacity len(seed_phrase) +       *)
(* len(path), the two appends fill it without reallocating, and once        *)
(* full_address_to_multisigner has run, with any of the four schemes and    *)
(* whether the derivation succeeded or failed, the one block the buffer     *)
(* ever had has been freed holding nothing but zero bytes.                  *)
C3_WorkingBufferZeroized ==
    /\ IsSome(full_address) =>
          LET buf == Unwrap(full_address) IN
          /\ buf.cap = Len(payload.seed_phrase) + Len(payload.derivation_path)
          /\ buf.len = buf.cap
          /\ buf.remnants = {}
          /\ as_str(buf) = payload.seed_phrase \o payload.derivation_path
          /\ derivations = <<>>
    /\ \A r \in ReleasedOf("full_address") : AllZero(r.mem)
    /\ derivations # <<>> =>
          /\ full_address = None
          /\ ReleasedOf("full_address") =
                {[owner |-> "full_address",
                  mem |-> [i \in 1..(Len(payload.seed_phrase) + Len(payload.derivation_path))
                              |-> Zero]]}

C3_Witness ==
    /\ pc = "done"
    /\ result = Err("SecretStringError")
    /\ encryption = Some("Ethereum")
    /\ Len(payload.derivation_path) > 0
    /\ \E r \in ReleasedOf("full_address") : Len(r.mem) >= 3 /\ AllZero(r.mem)

(* C4: on every exit path of create_address_with_seed_phrase every block    *)
(* the call frees that held the seed phrase, the owned seed_phrase argument *)
(* as well as the working buffer, holds only zero bytes when it is freed.   *)
C4_EverySecretBufferZeroized ==
    \A r \in released : AllZero(r.mem)

(* C9: the scheme handed to the derivation is the network specs' scheme,    *)
(* or Sr25519 without network specs, and the encryption field of the        *)
(* AddressDetails returned is the scheme the derivation was run with.       *)
C9_SchemeFromNetworkSpecs ==
    /\ Len(derivations) <= 1
    /\ derivations # <<>> =>
          /\ IsSome(network_specs) =>
                derivations[1].encryption = Unwrap(network_specs).encryption
          /\ ~IsSome(network_specs) => derivations[1].encryption = "Sr25519"
    /\ result.tag = "Ok" =>
          /\ derivations # <<>>
          /\ Unwrap(result.address_details).encryption = derivations[1].encryption

C9_Witness ==
    /\ result.tag = "Ok"
    /\ ~IsSome(network_specs)
    /\ Unwrap(result.address_details).encryption = "Sr25519"
    /\ derivations[1].encryption = "Sr25519"

HasTripleSlash(s) ==
    \E i \in 1..(Len(s) - 2) : s[i] = Slash /\ s[i + 1] = Slash /\ s[i + 2] = Slash

(* C10: a successful create_address returns an IdentityRecord exactly when  *)
(* network specs were supplied, and a network_id exactly then; the record   *)
(* holds the seed name, the network's scheme, the public key bytes of the   *)
(* derived signer, the parser's password-free path and the network's        *)
(* genesis hash, and network_id is NetworkSpecsKey::from_parts of the       *)
(* network's genesis hash and scheme.                                       *)
C10_IdentityRecordIffNetwork ==
    result.tag = "Ok" =>
        LET ad == Unwrap(result.address_details) IN
        /\ IsSome(result.identity_record) <=> IsSome(network_specs)
        /\ IsSome(ad.network_id) <=> IsSome(network_specs)
        /\ IsSome(network_specs) =>
              LET ns == Unwrap(network_specs)
                  rec == Unwrap(result.identity_record)
              IN /\ rec.seed_name = payload.seed_name
                 /\ rec.encryption = ns.encryption
                 /\ rec.public_key = Unwrap(multisigner).public
                 /\ rec.path = cropped_path
                 /\ ~HasTripleSlash(rec.path)
                 /\ rec.network_genesis_hash = ns.genesis_hash
                 /\ Unwrap(ad.network_id) =
                        NetworkSpecsKey_from_parts(ns.genesis_hash, ns.encryption)

C10_Witness ==
    /\ result.tag = "Ok"
    /\ IsSome(network_specs)
    /\ IsSome(result.identity_record)
    /\ has_pwd
    /\ Len(Unwrap(result.identity_record).path) > 0
    /\ Unwrap(network_specs).encryption = "Ecdsa"

----------------------------------------------------------------------------
(* Properties of the NetworkSpecsKey codec, checked under SpecKey *)

(* C5: decoding the key from_parts builds from a genesis hash and a scheme  *)
(* gives that hash and that scheme back, for each of the four schemes, and  *)
(* no other (hash, scheme) pair is encoded to the same bytes.               *)
C5_FromPartsRoundTrip ==
    (IsSome(key_input) /\ Unwrap(key_input).kind = "parts") =>
        LET k == Unwrap(key_input) IN
        /\ pc = "key_done" =>
              Unwrap(decoded) = DecodeOk(k.genesis_hash, k.encryption)
        /\ IsSome(network_specs_key) =>
              \A h2 \in GenesisHashes, e2 \in Encryption :
                  NetworkSpecsKey_from_parts(h2, e2) = Unwrap(network_specs_key)
                  => (h2 = k.genesis_hash /\ e2 = k.encryption)

C5_Witness ==
    /\ pc = "key_done"
    /\ Unwrap(key_input).kind = "parts"
    /\ Unwrap(key_input).encryption = "Ethereum"
    /\ Unwrap(key_input).genesis_hash = Hash(1)
    /\ Unwrap(decoded).ok
    /\ Unwrap(decoded).encryption = "Ethereum"

(* one scheme tag in 0..3 followed by exactly 32 hash bytes *)
ExactKeyShape(bytes) ==
    /\ Len(bytes) = 33
    /\ bytes[1] \in 0..3

(* C6: genesis_hash_encryption returns an error for every key whose bytes   *)
(* are not exactly one scheme tag in 0..3 followed by exactly 32 hash       *)
(* bytes: an unknown tag, too few bytes, or bytes after the hash.           *)
C6_MalformedKeyRejected ==
    (pc = "key_done" /\ ~ExactKeyShape(Unwrap(network_specs_key)))
    => ~Unwrap(decoded).ok

----------------------------------------------------------------------------
(* Properties of AddressKey::from_parts, checked under SpecAddr *)

(* C7: AddressKey::from_parts succeeds exactly when the public key has 32   *)
(* bytes for Ed25519 and Sr25519, or 33 bytes for Ecdsa and Ethereum; every *)
(* other length gives WrongPublicKeyLength, with or without a genesis hash; *)
(* on success the key holds the bytes and the genesis hash supplied.        *)
C7_FromPartsLength ==
    pc = "addr_done" =>
        LET a == Unwrap(addr_input)
            r == Unwrap(address_key)
            expected == IF a.encryption \in {"Ed25519", "Sr25519"} THEN 32 ELSE 33
        IN /\ r.ok <=> Len(a.public) = expected
           /\ ~r.ok => r.error = "WrongPublicKeyLength"
           /\ r.ok => /\ r.key.multisigner.public = a.public
                      /\ r.key.genesis_hash = a.genesis_hash

C7_Witness ==
    /\ pc = "addr_done"
    /\ Unwrap(address_key).ok
    /\ Unwrap(addr_input).encryption = "Ethereum"
    /\ Len(Unwrap(addr_input).public) = 33
    /\ IsSome(Unwrap(addr_input).genesis_hash)

----------------------------------------------------------------------------
(* Properties of the path parser, checked under SpecPath *)

(* zero or more junctions, each one or two slashes and a non-empty segment  *)
(* without a slash: the string is empty, or starts with a slash, does not   *)
(* end with one and has no three slashes in a row                           *)
JunctionPart(t) ==
    \/ Len(t) = 0
    \/ /\ t[1] = Slash
       /\ t[Len(t)] # Slash
       /\ ~HasTripleSlash(t)

(* three slashes and a password of one or more characters *)
PasswordSuffix(t) ==
    /\ Len(t) >= 4
    /\ \A i \in 1..3 : t[i] = Slash

HasLineFeed(t) == \E i \in 1..Len(t) : t[i] = LineFeed

PathParsed == pc = "do_create" \/ (pc = "done" /\ result.tag = "Ok")

----------------------------------------------------------------------------
(* Further properties of create_address, checked under Spec *)

(* C11: every AddressDetails create_address returns has secret_exposed     *)
(* false, the seed name supplied, the parser's normalized path as its path *)
(* and the parser's has-password result as has_pwd.                        *)
C11_AddressDetailsFields ==
    result.tag = "Ok" =>
        /\ IsSome(result.address_details)
        /\ LET ad == Unwrap(result.address_details) IN
           /\ ad.secret_exposed = FALSE
           /\ ad.seed_name = payload.seed_name
           /\ ad.path = cropped_path
           /\ ad.has_pwd = has_pwd

C11_Witness ==
    /\ result.tag = "Ok"
    /\ Unwrap(result.address_details).has_pwd
    /\ Len(Unwrap(result.address_details).path) > 0
    /\ Unwrap(result.address_details).path # payload.derivation_path
    /\ ~Unwrap(result.address_details).secret_exposed


(* C13: no operation of the core aborts the process: create_address, for    *)
(* every payload variant, and print_multisigner_as_base58_or_eth, for every *)
(* 33-byte Ecdsa key, return a value or an error value and never panic.     *)
C13_NoOperationPanics ==
    /\ pc # "panicked"
    /\ result.tag # "Panic"
    /\ IsSome(printed) => Unwrap(printed).tag # "Panic"

----------------------------------------------------------------------------
(* The parser off its grammar, checked under SpecPath *)

(* junctions, optionally followed by three slashes and a password that      *)
(* holds no line feed                                                       *)
InPathGrammar(p) ==
    \E k \in 0..Len(p) :
        /\ JunctionPart(Prefix(p, k))
        /\ \/ k = Len(p)
           \/ PasswordSuffix(Suffix(p, k)) /\ ~HasLineFeed(Suffix(p, k))

(* C15: a raw path that does not match the path grammar does not make       *)
(* create_address fail: with a non-empty seed phrase and seed name and a    *)
(* derivation that succeeded, the call returns Ok and the AddressDetails    *)
(* has the empty path and has_pwd false.                                    *)
C15_OffGrammarPathIsEmpty ==
    (/\ IsSeedPhraseCall
     /\ Len(payload.seed_phrase) > 0
     /\ Len(payload.seed_name) > 0
     /\ ~InPathGrammar(payload.derivation_path)
     /\ IsSome(multisigner)) =>
        /\ result.tag \in {"Pending", "Ok"}
        /\ pc \in {"parse_path", "do_create", "done"}
        /\ PathParsed => (cropped_path = <<>> /\ ~has_pwd)
        /\ pc = "done" =>
              /\ result.tag = "Ok"
              /\ Unwrap(result.address_details).path = <<>>
              /\ ~Unwrap(result.address_details).has_pwd

C15_Witness ==
    /\ pc = "done"
    /\ payload.derivation_path = <<"/", "a", "/", "/", "/">>
    /\ result.tag = "Ok"
    /\ Unwrap(result.address_details).path = <<>>
    /\ ~Unwrap(result.address_details).has_pwd

----------------------------------------------------------------------------
(* The Ethereum scheme and the signer identity, checked under SpecAddr *)

(* C16: the signer identity does not keep the Ethereum scheme tag: a        *)
(* successful AddressKey::from_parts(k, Ethereum, h) equals                 *)
(* from_parts(k, Ecdsa, h) and has the same key() bytes,                    *)
(* public_key_encryption on it returns (k, Ecdsa), and                      *)
(* multisigner_to_encryption never returns Ethereum; for Ed25519, Sr25519   *)
(* and Ecdsa, public_key_encryption(from_parts(k, s, h)) returns (k, s).    *)
C16_EthereumTagNotKept ==
    (pc = "addr_done" /\ Unwrap(address_key).ok) =>
        LET a == Unwrap(addr_input)
            r == Unwrap(address_key)
            as_ecdsa == AddressKey_from_parts(a.public, "Ecdsa", a.genesis_hash)
        IN /\ multisigner_to_encryption(r.key.multisigner) # "Ethereum"
           /\ a.encryption = "Ethereum" =>
                 /\ r = as_ecdsa
                 /\ AddressKey_key(r.key) = AddressKey_key(as_ecdsa.key)
                 /\ public_key_encryption(r.key) =
                        [public |-> a.public, encryption |-> "Ecdsa"]
           /\ a.encryption # "Ethereum" =>
                 public_key_encryption(r.key) =
                     [public |-> a.public, encryption |-> a.encryption]

C16_Witness ==
    /\ pc = "addr_done"
    /\ Unwrap(addr_input).encryption = "Ethereum"
    /\ IsSome(Unwrap(addr_input).genesis_hash)
    /\ Unwrap(address_key).ok
    /\ public_key_encryption(Unwrap(address_key).key).encryption = "Ecdsa"
    /\ Len(AddressKey_key(Unwrap(address_key).key)) = 1 + Public33Len + 1 + H256Len

----------------------------------------------------------------------------
(* Properties of print_multisigner_as_base58_or_eth, checked under          *)
(* SpecPrint                                                                *)

IsBase58(text) == Len(text) > 0 /\ \A i \in 1..Len(text) : text[i] \in Base58Alphabet

Is0xPrefixed(text) == Len(text) >= 2 /\ text[1] = "0" /\ text[2] = "x"

Is0xHexAddress(text) ==
    /\ Len(text) = 2 + 2 * H160Len
    /\ Is0xPrefixed(text)
    /\ \A i \in 3..Len(text) : IsHexDigit(text[i])

IsSs58Return(r) == r.tag = "Ok" /\ IsBase58(r.text) /\ ~Is0xPrefixed(r.text)

(* C12: for every signer identity and every prefix, a call with scheme      *)
(* Ethereum returns a 0x-prefixed hex address and never a base58 string,    *)
(* and a call with scheme Ed25519 or Sr25519 returns an SS58 base58 string  *)
(* and never a 0x-prefixed one.                                             *)
C12_SchemeSelectsRenderer ==
    (pc = "print_done" /\ Unwrap(printed).tag = "Ok") =>
        LET a == Unwrap(print_input)
            r == Unwrap(printed)
        IN /\ a.encryption = "Ethereum" =>
                  Is0xHexAddress(r.text) /\ ~IsBase58(r.text)
           /\ a.encryption \in {"Ed25519", "Sr25519"} => IsSs58Return(r)

(* C12, as the code has it: the key type selects the renderer and the       *)
(* scheme matters for an Ecdsa key only.  An Ed25519 or Sr25519 identity    *)
(* gets an SS58 base58 string under every scheme, Ethereum included; an     *)
(* Ecdsa identity with scheme Ethereum never gets a base58 string, what is  *)
(* returned being a 0x-prefixed hex address, and with any other scheme gets *)
(* an SS58 base58 string; so scheme Ed25519 or Sr25519 returns an SS58      *)
(* base58 string, never a 0x-prefixed one, for every identity and prefix.   *)
C12_KeyTypeThenScheme ==
    pc = "print_done" =>
        LET a == Unwrap(print_input)
            r == Unwrap(printed)
        IN /\ a.multi_signer.variant \in {"Ed25519", "Sr25519"} => IsSs58Return(r)
           /\ (a.multi_signer.variant = "Ecdsa" /\ a.encryption = "Ethereum") =>
                  (r.tag = "Ok" => Is0xHexAddress(r.text) /\ ~IsBase58(r.text))
           /\ (a.multi_signer.variant = "Ecdsa" /\ a.encryption # "Ethereum") =>
                  IsSs58Return(r)
           /\ a.encryption \in {"Ed25519", "Sr25519"} => IsSs58Return(r)

C12_Witness ==
    /\ pc = "print_done"
    /\ Unwrap(print_input).multi_signer.variant = "Ecdsa"
    /\ Unwrap(print_input).encryption = "Ethereum"
    /\ IsSome(Unwrap(print_input).optional_prefix)
    /\ Unwrap(printed).tag = "Ok"
    /\ Is0xHexAddress(Unwrap(printed).text)


----------------------------------------------------------------------------
(* Calls with identical arguments, checked under SpecAgain *)

AllCalls == calls \o (IF Returned THEN <<ThisCall>> ELSE <<>>)

====
